---- MODULE Spec2Model ----
(***************************************************************************)
(* MT5 data converter: timestamp rounding (src/src/time_utils.py), the     *)
(* regularization pipeline (src/src/data_processor.py), the H1/G2 merge    *)
(* (src/src/merge_processor.py) and the Streamlit handlers that stage      *)
(* uploads in temporary files (src/streamlit_app.py).                      *)
(*                                                                         *)
(* Each component has its own specification over the shared variables; a   *)
(* specification leaves the variables of the other components at their     *)
(* idle values.                                                            *)
(***************************************************************************)
EXTENDS Integers, Sequences, FiniteSets

VARIABLES
    pc,             \* position of the component under check
    dt,             \* round_time_to_nearest_15min: the argument
    rounded_time,   \* round_time_to_nearest_15min: the returned datetime
    h1_filename,    \* validate_file_compatibility: first argument
    g2_filename,    \* validate_file_compatibility: second argument
    compatible,     \* validate_file_compatibility: the returned bool
    logs,           \* merge_processor.logger.logs (module global)
    h1_file,        \* merge_h1_g2_files: the file at path h1_file
    g2_file,        \* merge_h1_g2_files: the file at path g2_file
    merge_ret,      \* merge_h1_g2_files: the returned (merged_df, log text)
    calls,          \* number of calls made to the merge module so far
    csv_rows,       \* process_csv: the data region read from the file
    data_combined,  \* process_csv: the regularized table
    disk,           \* temporary files present on disk
    created,        \* scratch files created by the last script run
    tmp_seq,        \* number of temporary file names handed out so far
    run,            \* the last Streamlit script run: its inputs and outcome
    time_column,    \* round_time_column: the column df['時間']
    result_df,      \* round_time_column: the column result_df['時間']
    csv_df,         \* process_csv: the table df read from the file
    time_balance_info,  \* process_csv: the located data region
    main_df,        \* convert_html_to_df: the largest table of the page
    html_ret        \* convert_html_to_df: the returned region

vars == <<pc, dt, rounded_time, h1_filename, g2_filename, compatible, logs,
          h1_file, g2_file, merge_ret, calls, csv_rows, data_combined,
          disk, created, tmp_seq, run, time_column, result_df, csv_df,
          time_balance_info, main_df, html_ret>>

roundVars == <<dt, rounded_time>>
compatVars == <<h1_filename, g2_filename, compatible>>
mergeVars == <<h1_file, g2_file, merge_ret>>
csvVars == <<csv_rows, data_combined>>
appVars == <<disk, created, tmp_seq, run>>
colVars == <<time_column, result_df>>
headerVars == <<csv_df, time_balance_info>>
htmlVars == <<main_df, html_ret>>

\* An optional value is a sequence of length at most one: <<>> is the
\* missing marker (None, NaN, NaT), <<v>> is the value v.
Missing == <<>>
Some(v) == <<v>>
IsMissing(o) == Len(o) = 0
Get(o) == o[1]

Min(S) == CHOOSE x \in S : \A y \in S : x <= y
Max(S) == CHOOSE x \in S : \A y \in S : y <= x

Range(s) == {s[i] : i \in 1..Len(s)}

RECURSIVE SelectIdx(_, _, _)
\* the subsequence of s at the indices i (in order) for which Keep(i)
SelectIdx(s, Keep(_), i) ==
    IF i > Len(s) THEN <<>>
    ELSE (IF Keep(i) THEN <<s[i]>> ELSE <<>>) \o SelectIdx(s, Keep, i + 1)

(***************************************************************************)
(* Idle values of each component's variables.                              *)
(***************************************************************************)
RoundIdle == dt = Missing /\ rounded_time = Missing
CompatIdle == h1_filename = <<>> /\ g2_filename = <<>> /\ compatible = Missing
LoggerFresh == logs = <<>>
MergeIdle == h1_file = Missing /\ g2_file = Missing /\ merge_ret = Missing
CsvIdle == csv_rows = <<>> /\ data_combined = Missing
AppIdle == disk = {} /\ created = {} /\ tmp_seq = 0 /\ run = Missing
ColIdle == time_column = <<>> /\ result_df = Missing
HeaderIdle == csv_df = Missing /\ time_balance_info = Missing
HtmlIdle == main_df = <<>> /\ html_ret = Missing

(***************************************************************************)
(* src/src/time_utils.py                                                   *)
(***************************************************************************)

\* Bound: calendar days of the inputs (the day after the last one is
\* reachable by rollover).
MaxDay == 1

Hours == 0..23
Minutes == 0..59
SecondsSample == {0, 30, 45, 59}
MicrosecondsSample == {0, 500000}

\* datetime.datetime, the date kept as a day number
DateTimes ==
    [day : 0..MaxDay, hour : Hours, minute : Minutes,
     second : SecondsSample, microsecond : MicrosecondsSample]

\* dt + datetime.timedelta(hours=1)
AddOneHour(d) ==
    IF d.hour = 23
    THEN [d EXCEPT !.day = d.day + 1, !.hour = 0]
    ELSE [d EXCEPT !.hour = d.hour + 1]

\* a rounding that truncates instead of rounding to nearest
RoundDown15(d) ==
    [d EXCEPT !.minute = (d.minute \div 15) * 15, !.second = 0,
              !.microsecond = 0]

round_time_to_nearest_15min(d) ==
    LET minutes == d.minute
        rounded_minutes == ((minutes + 7) \div 15) * 15
    IN  IF rounded_minutes = 60
        THEN AddOneHour([d EXCEPT !.minute = 0, !.second = 0,
                                  !.microsecond = 0])
        ELSE [d EXCEPT !.minute = rounded_minutes, !.second = 0,
                       !.microsecond = 0]

InitRound ==
    /\ pc = "start"
    /\ dt \in {Some(d) : d \in DateTimes}
    /\ rounded_time = Missing
    /\ CompatIdle /\ LoggerFresh /\ MergeIdle /\ calls = 0
    /\ CsvIdle /\ AppIdle /\ ColIdle /\ HeaderIdle /\ HtmlIdle

RoundTime ==
    /\ pc = "start"
    /\ rounded_time' = Some(round_time_to_nearest_15min(Get(dt)))
    /\ pc' = "done"
    /\ UNCHANGED <<dt, compatVars, logs, mergeVars, calls, csvVars, appVars,
                 colVars, headerVars, htmlVars>>

NextRound == RoundTime

SpecRound == InitRound /\ [][NextRound]_vars

\* minutes since day 0, 00:00
MinuteOfEpoch(d) == (d.day * 24 + d.hour) * 60 + d.minute

LogLine(level, msg, args) == <<level, msg, args>>

\* File names are sequences of characters.
Digits == {"0", "1", "2", "3", "4", "5", "6", "7", "8", "9"}
cH1 == <<"H", "1">>
cG2 == <<"G", "2">>
cCT == <<"C", "T">>
cPd == <<"P", "d">>

\* the literal lit occurs in s at position i
HasAt(s, i, lit) ==
    /\ i >= 1
    /\ i + Len(lit) - 1 <= Len(s)
    /\ \A k \in 1..Len(lit) : s[i + k - 1] = lit[k]

RECURSIVE DigitRun(_, _)
\* the number of consecutive digits of s from position i on
DigitRun(s, i) ==
    IF i <= Len(s) /\ s[i] \in Digits THEN 1 + DigitRun(s, i + 1) ELSE 0

\* '.' of the pattern matches any character but a line break
DotMatches(c) == c # "\n"

\* (CT\d+)_(Pd\d+) tried at position j: the two groups, or Missing. The
\* greedy \d+ of the first group gives digits back until '_Pd\d+' follows.
MatchIdsAt(s, j) ==
    IF ~(HasAt(s, j, cCT) /\ DigitRun(s, j + 2) >= 1) THEN Missing
    ELSE
      LET fits == {n \in 1..DigitRun(s, j + 2) :
                      /\ HasAt(s, j + 2 + n, <<"_">> \o cPd)
                      /\ DigitRun(s, j + 5 + n) >= 1}
      IN  IF fits = {} THEN Missing
          ELSE LET n == Max(fits)
                   m == DigitRun(s, j + 5 + n)
               IN  Some(<<SubSeq(s, j, j + 1 + n),
                          SubSeq(s, j + 3 + n, j + 4 + n + m)>>)

\* the positions at which the identifiers match after a prefix at position i
\* with the characters in between matched by '.*?'
IdsAfter(s, i) ==
    {j \in (i + 2)..Len(s) :
        /\ \A k \in (i + 2)..(j - 1) : DotMatches(s[k])
        /\ ~IsMissing(MatchIdsAt(s, j))}

\* the positions at which re.search can start a match
MatchStarts(s) ==
    {i \in 1..Len(s) :
        (HasAt(s, i, cH1) \/ HasAt(s, i, cG2)) /\ IdsAfter(s, i) # {}}

\* a greedy '.*' in place of the lazy '.*?': the last identifiers win
extract_identifiers_greedy(filename) ==
    IF MatchStarts(filename) = {} THEN Missing
    ELSE MatchIdsAt(filename,
                    Max(IdsAfter(filename, Min(MatchStarts(filename)))))

\* re.search(r'(?:H1|G2).*?(CT\d+)_(Pd\d+)', filename): the leftmost start,
\* then the shortest '.*?'
extract_identifiers(filename) ==
    IF MatchStarts(filename) = {} THEN Missing
    ELSE MatchIdsAt(filename,
                    Min(IdsAfter(filename, Min(MatchStarts(filename)))))

\* validate_file_compatibility: the returned bool and the lines it logs
validate_file_compatibility(h1_name, g2_name) ==
    LET h1_ids == extract_identifiers(h1_name)
        g2_ids == extract_identifiers(g2_name)
    IN  IF IsMissing(h1_ids) \/ IsMissing(g2_ids)
        THEN [ret |-> FALSE,
              log |-> <<LogLine("ERROR", "pattern does not match", <<>>)>>]
        ELSE IF h1_ids # g2_ids
        THEN [ret |-> FALSE,
              log |-> <<LogLine("ERROR", "CT or Pd differ",
                                <<Get(h1_ids), Get(g2_ids)>>)>>]
        ELSE [ret |-> TRUE, log |-> <<>>]

\* File names of the compatibility check: prefix, identifiers, suffix.
NamePrefixes ==
    {<<>>, cH1 \o <<"_">>, cG2 \o <<"_">>, cH1, <<"X">> \o cG2 \o <<"_", "a">>,
     <<"H", "_">>}
NameBodies ==
    {cCT \o <<"3", "_">> \o cPd \o <<"2">>,
     cCT \o <<"5", "_">> \o cPd \o <<"2">>,
     cCT \o <<"3", "_">> \o cPd \o <<"7">>,
     cCT \o <<"3", "5", "_">> \o cPd \o <<"2">>,
     cCT \o <<"_">> \o cPd \o <<"2">>,
     cCT \o <<"3">> \o cPd \o <<"2">>,
     cCT \o <<"3", "_">> \o cPd,
     cCT \o <<"3", "_", "p", "d", "2">>,
     cCT \o <<"3", "_">> \o cCT \o <<"5", "_">> \o cPd \o <<"2">>,
     cCT \o <<"3", "_">> \o cPd \o <<"2", "_">> \o cCT \o <<"5", "_">>
         \o cPd \o <<"7">>}
NameSuffixes ==
    {<<".", "c", "s", "v">>, <<"7", ".", "c", "s", "v">>,
     <<"_">> \o cG2 \o <<".", "c", "s", "v">>}
FileNames ==
    {p \o b \o x : p \in NamePrefixes, b \in NameBodies, x \in NameSuffixes}

InitCompat ==
    /\ pc = "start"
    /\ h1_filename \in FileNames
    /\ g2_filename \in FileNames
    /\ compatible = Missing
    /\ RoundIdle /\ LoggerFresh /\ MergeIdle /\ calls = 0
    /\ CsvIdle /\ AppIdle /\ ColIdle /\ HeaderIdle /\ HtmlIdle

\* one call validate_file_compatibility(a, b)
ValidateCall(a, b) ==
    /\ LET r == validate_file_compatibility(a, b)
       IN  /\ compatible' = Some(r.ret)
           /\ logs' = logs \o r.log
    /\ h1_filename' = a
    /\ g2_filename' = b
    /\ calls' = calls + 1
    /\ pc' = "done"
    /\ UNCHANGED <<roundVars, mergeVars, csvVars, appVars,
                 colVars, headerVars, htmlVars>>

Validate ==
    /\ pc = "start"
    /\ ValidateCall(h1_filename, g2_filename)

NextCompat == Validate

SpecCompat == InitCompat /\ [][NextCompat]_vars

\* The identifiers a name carries, read off the name without running the
\* search: the first place j at which CT<digits>_Pd<digits> stands (both
\* digit runs taken whole) with an H1 or G2 somewhere before it.
CarriesIdsAt(s, j) ==
    /\ HasAt(s, j, cCT)
    /\ DigitRun(s, j + 2) >= 1
    /\ HasAt(s, j + 2 + DigitRun(s, j + 2), <<"_">> \o cPd)
    /\ DigitRun(s, j + 5 + DigitRun(s, j + 2)) >= 1
    /\ \E i \in 1..(j - 2) : HasAt(s, i, cH1) \/ HasAt(s, i, cG2)
IdPlaces(s) == {j \in 1..Len(s) : CarriesIdsAt(s, j)}
HasIds(s) == IdPlaces(s) # {}
CTOf(s) ==
    LET j == Min(IdPlaces(s)) IN SubSeq(s, j, j + 1 + DigitRun(s, j + 2))
PdOf(s) ==
    LET j == Min(IdPlaces(s))
        p == j + 3 + DigitRun(s, j + 2)
    IN  SubSeq(s, p, p + 1 + DigitRun(s, p + 2))

\* C3: validate_file_compatibility(nameA, nameB) is true exactly when both
\* names carry a (CT<digits>, Pd<digits>) pair, the CT token after an H1 or
\* G2, the Pd token right after 'CT<digits>_', and the two pairs agree in the
\* CT token and in the Pd token; it is false when a name carries no pair or
\* when either token differs.
C3_CompatibleIffSameIds ==
    pc = "done" =>
        (Get(compatible) <=>
            /\ HasIds(h1_filename) /\ HasIds(g2_filename)
            /\ CTOf(h1_filename) = CTOf(g2_filename)
            /\ PdOf(h1_filename) = PdOf(g2_filename))

\* C3 witness: two names with two identifier pairs each were accepted on
\* their first pairs, although a later pair is there too.
C3_Witness ==
    /\ pc = "done"
    /\ Get(compatible)
    /\ Cardinality(IdPlaces(h1_filename)) = 2
    /\ h1_filename # g2_filename
    /\ HasAt(h1_filename, 1, cH1) /\ HasAt(g2_filename, 1, cG2)

(***************************************************************************)
(* src/src/merge_processor.py: merge_h1_g2_files                           *)
(***************************************************************************)

\* Bounds: the instants 0..MaxKey of the key columns, the rows of a table.
MaxKey == 1
MaxMergeRows == 2

\* Text layouts of a key cell. "empty" is an empty cell (NaN), "junk" text
\* that is no timestamp.
LayoutHM == "%Y.%m.%d %H:%M"
LayoutHMS == "%Y.%m.%d %H:%M:%S"

KeyCell(layout, t) == [layout |-> layout, t |-> t]
EmptyCell == KeyCell("empty", 0)
JunkCell == KeyCell("junk", 0)

\* pd.to_datetime(cell): the instant, NaT for an empty cell; fails on junk
ParsesAny(cell) == cell.layout # "junk"
\* pd.to_datetime(cell, format='%Y.%m.%d %H:%M'): only that layout converts
ParsesHM(cell) == cell.layout \in {LayoutHM, "empty"}
ToInstant(cell) == IF cell.layout = "empty" THEN Missing ELSE Some(cell.t)

\* A CSV file at a path: absent, without content, or a table whose key
\* column (H1: the time column '時間', G2: 'Time') may be there or not.
CsvFile(path, state, has_key, rows) ==
    [path |-> path, state |-> state, has_key |-> has_key, rows |-> rows]

\* df.columns.tolist(): the key column, when there, and the value column
Columns(file, key_name, val_name) ==
    IF file.has_key THEN <<key_name, val_name>> ELSE <<val_name>>

\* the rows a G2 table attaches to one H1 row: pandas matches equal keys, and
\* a missing key (NaT) with a missing key
MatchesOf(key, g2_rows) ==
    SelectIdx(g2_rows, LAMBDA j : ToInstant(g2_rows[j].key) = key, 1)

\* an inner join in place of the left join
JoinedRowsInner(row, g2_rows) ==
    LET m == MatchesOf(ToInstant(row.key), g2_rows)
    IN  [j \in 1..Len(m) |->
            [key |-> ToInstant(row.key), val |-> row.val,
             g2 |-> Some(m[j].val)]]

\* pd.merge(h1_df, g2_df, left_on='時間', right_on='Time', how='left') of one
\* H1 row: one row per matching G2 row, one row without G2 values if none
JoinedRows(row, g2_rows) ==
    LET m == MatchesOf(ToInstant(row.key), g2_rows)
    IN  IF Len(m) = 0
        THEN <<[key |-> ToInstant(row.key), val |-> row.val, g2 |-> Missing]>>
        ELSE [j \in 1..Len(m) |->
                 [key |-> ToInstant(row.key), val |-> row.val,
                  g2 |-> Some(m[j].val)]]

RECURSIVE LeftMerge(_, _, _)
\* pd.merge(..., how='left'): the H1 rows in order
LeftMerge(h1_rows, g2_rows, i) ==
    IF i > Len(h1_rows) THEN <<>>
    ELSE JoinedRows(h1_rows[i], g2_rows) \o LeftMerge(h1_rows, g2_rows, i + 1)

\* sort order of the key column: ascending, missing keys last
KeyBefore(a, b) ==
    IF IsMissing(a) THEN FALSE
    ELSE IF IsMissing(b) THEN TRUE
    ELSE Get(a) < Get(b)

RECURSIVE InsertByKey(_, _)
InsertByKey(sorted, row) ==
    IF Len(sorted) = 0 THEN <<row>>
    ELSE IF KeyBefore(row.key, sorted[1].key) THEN <<row>> \o sorted
    ELSE <<sorted[1]>> \o InsertByKey(Tail(sorted), row)

RECURSIVE SortByKey(_, _)
\* merged_df.sort_values('時間'); rows of equal key are kept in the join's
\* order here (pandas leaves their order open)
SortByKey(rows, i) ==
    IF i = 0 THEN <<>>
    ELSE InsertByKey(SortByKey(rows, i - 1), rows[i])

\* merged_df['時間'].dt.strftime('%Y.%m.%d %H:%M:%S'): NaT becomes NaN
Strftime(row) ==
    [row EXCEPT !.key = IF IsMissing(row.key) THEN Missing
                        ELSE Some(KeyCell(LayoutHMS, Get(row.key)))]

MergedTable(h1_rows, g2_rows) ==
    LET joined == LeftMerge(h1_rows, g2_rows, 1)
        sorted == SortByKey(joined, Len(joined))
    IN  [i \in 1..Len(sorted) |-> Strftime(sorted[i])]

MergeRet(df, log) == [df |-> df, logs |-> log]

\* merge_h1_g2_files(h1_file, g2_file) run with logger.logs = log0: the
\* returned (merged_df, logger.get_logs()); logger.logs afterwards is the
\* returned log text
merge_h1_g2_files(h1, g2, log0) ==
    IF h1.state = "absent"
    THEN MergeRet(Missing,
             log0 \o <<LogLine("ERROR", "H1 file not found", <<h1.path>>)>>)
    ELSE IF g2.state = "absent"
    THEN MergeRet(Missing,
             log0 \o <<LogLine("ERROR", "G2 file not found", <<g2.path>>)>>)
    ELSE
    LET read_failed ==
            <<LogLine("ERROR", "merge failed", <<"No columns to parse">>),
              LogLine("EXCEPTION", "error detail", <<"EmptyDataError">>)>>
        log1 == log0 \o <<LogLine("INFO", "reading files", <<>>),
                          LogLine("INFO", "reading H1", <<h1.path>>)>>
        log2 == log1 \o <<LogLine("INFO", "H1 read", <<Len(h1.rows)>>),
                          LogLine("INFO", "H1 columns",
                                  Columns(h1, "jikan", "h1_value")),
                          LogLine("INFO", "reading G2", <<g2.path>>)>>
        log3 == log2 \o <<LogLine("INFO", "G2 read", <<Len(g2.rows)>>),
                          LogLine("INFO", "G2 columns",
                                  Columns(g2, "Time", "g2_value")),
                          LogLine("INFO", "preprocessing", <<>>)>>
        log4 == log3 \o <<LogLine("INFO", "converting datetimes", <<>>)>>
        merged == MergedTable(h1.rows, g2.rows)
        log5 == log4 \o <<LogLine("INFO", "merging", <<>>),
                          LogLine("INFO", "merged", <<Len(merged)>>),
                          LogLine("INFO", "merged columns",
                                  <<"jikan", "h1_value", "g2_value">>)>>
    IN  IF h1.state = "empty" THEN MergeRet(Missing, log1 \o read_failed)
        ELSE IF g2.state = "empty" THEN MergeRet(Missing, log2 \o read_failed)
        ELSE IF ~h1.has_key
        THEN MergeRet(Missing,
                 log3 \o <<LogLine("ERROR", "H1 has no time column", <<>>),
                           LogLine("INFO", "available columns",
                                   Columns(h1, "jikan", "h1_value"))>>)
        ELSE IF ~g2.has_key
        THEN MergeRet(Missing,
                 log3 \o <<LogLine("ERROR", "G2 has no Time column", <<>>),
                           LogLine("INFO", "available columns",
                                   Columns(g2, "Time", "g2_value"))>>)
        ELSE IF \E i \in 1..Len(h1.rows) : ~ParsesAny(h1.rows[i].key)
        THEN MergeRet(Missing,
                 log4 \o <<LogLine("ERROR", "datetime conversion", <<"H1">>),
                           LogLine("ERROR", "H1 time sample", <<>>),
                           LogLine("ERROR", "G2 Time sample", <<>>)>>)
        ELSE IF \E i \in 1..Len(g2.rows) : ~ParsesHM(g2.rows[i].key)
        THEN MergeRet(Missing,
                 log4 \o <<LogLine("ERROR", "datetime conversion", <<"G2">>),
                           LogLine("ERROR", "H1 time sample", <<>>),
                           LogLine("ERROR", "G2 Time sample", <<>>)>>)
        ELSE IF Len(merged) = 0
        THEN MergeRet(Missing,
                 log5 \o <<LogLine("ERROR", "merge result has 0 rows", <<>>)>>)
        ELSE MergeRet(Some(merged), log5)

\* Input tables of the merge.
RECURSIVE SeqsUpTo(_, _)
\* the sequences over S of length at most n
SeqsUpTo(S, n) ==
    IF n = 0 THEN {<<>>}
    ELSE LET shorter == SeqsUpTo(S, n - 1)
         IN  shorter \cup {Append(q, x) : q \in shorter, x \in S}

H1Cells == {KeyCell(LayoutHMS, t) : t \in 0..MaxKey} \cup {EmptyCell, JunkCell}
G2Cells ==
    {KeyCell(LayoutHM, t) : t \in 0..MaxKey}
        \cup {EmptyCell, KeyCell(LayoutHMS, 0)}
H1Rows == [key : H1Cells, val : {"a", "b"}]
G2Rows == [key : G2Cells, val : {"x", "y"}]

FilesAt(path, Rows) ==
    {CsvFile(path, "absent", FALSE, <<>>), CsvFile(path, "empty", FALSE, <<>>)}
        \cup {CsvFile(path, "table", FALSE, r) : r \in SeqsUpTo(Rows, 1)}
        \cup {CsvFile(path, "table", TRUE, r) : r \in SeqsUpTo(Rows, MaxMergeRows)}

InitMerge ==
    /\ pc = "start"
    /\ RoundIdle /\ CompatIdle /\ LoggerFresh /\ MergeIdle /\ calls = 0
    /\ CsvIdle /\ AppIdle /\ ColIdle /\ HeaderIdle /\ HtmlIdle

\* one call merge_h1_g2_files(h1.path, g2.path) with the files h1 and g2 at
\* these paths
MergeCall(h1, g2) ==
    /\ LET r == merge_h1_g2_files(h1, g2, logs)
       IN  /\ merge_ret' = Some(r)
           /\ logs' = r.logs
    /\ h1_file' = Some(h1)
    /\ g2_file' = Some(g2)
    /\ calls' = calls + 1
    /\ pc' = "done"
    /\ UNCHANGED <<roundVars, compatVars, csvVars, appVars,
                 colVars, headerVars, htmlVars>>

\* the first call of merge_h1_g2_files in a process
Merge ==
    /\ pc = "start"
    /\ \E h1 \in FilesAt(1, H1Rows), g2 \in FilesAt(2, G2Rows) :
          MergeCall(h1, g2)

NextMerge == Merge

SpecMerge == InitMerge /\ [][NextMerge]_vars

\* the number of indices of s at which P holds
CountIdx(s, P(_)) == Cardinality({i \in 1..Len(s) : P(i)})

\* both files are tables with their key columns, and every key cell converts
\* to an instant
KeyColumnsParse(h1, g2) ==
    /\ h1.state = "table" /\ h1.has_key
    /\ g2.state = "table" /\ g2.has_key
    /\ \A i \in 1..Len(h1.rows) : h1.rows[i].key.layout = LayoutHMS
    /\ \A j \in 1..Len(g2.rows) : g2.rows[j].key.layout = LayoutHM

\* the merged rows with H1 instant t and H1 value a (and, with `any` false,
\* G2 value b)
MergedCount(df, t, a, b, any) ==
    CountIdx(df, LAMBDA i :
        /\ ~IsMissing(df[i].key) /\ Get(df[i].key).t = t
        /\ df[i].val = a
        /\ (any \/ df[i].g2 = b))

H1Count(h1, t, a) ==
    CountIdx(h1.rows, LAMBDA i : h1.rows[i].key.t = t /\ h1.rows[i].val = a)
G2Count(g2, t) == CountIdx(g2.rows, LAMBDA j : g2.rows[j].key.t = t)
G2CountVal(g2, t, b) ==
    CountIdx(g2.rows, LAMBDA j : g2.rows[j].key.t = t /\ g2.rows[j].val = b)

\* tableB's value is on a merged row exactly when tableB has a row with the
\* row's instant
AttachedIffMatch(df, g2) ==
    \A i \in 1..Len(df) :
        ~IsMissing(df[i].g2) <=> G2Count(g2, Get(df[i].key).t) > 0

MaxSlot == 1
MaxCsvRows == 3

\* '15min' in seconds. Instants are seconds since a midnight, which is an
\* even multiple of the cadence since the epoch.
Cadence == 900

RECURSIVE StripChars(_, _)
\* str.replace(c, '') for each c of chars
StripChars(text, chars) ==
    IF Len(text) = 0 THEN <<>>
    ELSE (IF text[1] \in chars THEN <<>> ELSE <<text[1]>>)
            \o StripChars(Tail(text), chars)

DigitValue(c) ==
    CASE c = "0" -> 0 [] c = "1" -> 1 [] c = "2" -> 2 [] c = "3" -> 3
      [] c = "4" -> 4 [] c = "5" -> 5 [] c = "6" -> 6 [] c = "7" -> 7
      [] c = "8" -> 8 [] c = "9" -> 9

RECURSIVE DecimalValue(_)
DecimalValue(text) ==
    IF Len(text) = 0 THEN 0
    ELSE DecimalValue(SubSeq(text, 1, Len(text) - 1)) * 10
            + DigitValue(text[Len(text)])

\* pd.to_numeric(text, errors='coerce') on unsigned whole numbers: NaN for
\* any other text
ToNumeric(text) ==
    IF Len(text) > 0 /\ \A i \in 1..Len(text) : text[i] \in Digits
    THEN Some(DecimalValue(text))
    ELSE Missing

\* clean_and_convert_balance on one cell
clean_and_convert_balance(text) == ToNumeric(StripChars(text, {" ", ","}))

\* pd.to_datetime(cell.replace('.', '/'), errors='coerce'): NaT for text
\* that is no timestamp
ToDatetimeCoerce(cell) ==
    IF cell.layout \in {LayoutHM, LayoutHMS} THEN Some(cell.t) ELSE Missing

\* rounding that always moves to the next boundary
Round15Up(t) == (t \div Cadence + 1) * Cadence

\* Series.dt.round('15min'): to the nearest multiple of the cadence, a tie
\* to the even multiple
Round15(t) ==
    LET q == t \div Cadence
        r == t % Cadence
    IN  IF 2 * r < Cadence THEN q * Cadence
        ELSE IF 2 * r > Cadence THEN (q + 1) * Cadence
        ELSE IF q % 2 = 0 THEN q * Cadence
        ELSE (q + 1) * Cadence

\* time_balance_info['DateTime'].dt.round('15min'): NaT stays NaT
RoundRow(row) ==
    [row EXCEPT !.DateTime = IF IsMissing(row.DateTime) THEN Missing
                             ELSE Some(Round15(Get(row.DateTime)))]

\* dropna(subset=['DateTime'])
DropNaT(rows) == SelectSeq(rows, LAMBDA r : ~IsMissing(r.DateTime))

\* drop_duplicates(subset=['DateTime']): the first row of each DateTime
DropDuplicates(rows) ==
    SelectIdx(rows, LAMBDA i :
        \A j \in 1..(i - 1) : rows[j].DateTime # rows[i].DateTime, 1)

\* lines 118-123: the series built from the parsed rows
BuildSeries(rows) ==
    DropDuplicates(DropNaT([i \in 1..Len(rows) |-> RoundRow(rows[i])]))

\* pd.date_range(start, end, freq='15T')
DateRange(start, end) ==
    {start + k * Cadence : k \in 0..((end - start) \div Cadence)}

\* no grid point is reported missing
MissingDatesNone(series) == {}

\* date_range.difference(time_balance_info['DateTime'])
MissingDates(series) ==
    LET observed == {Get(series[i].DateTime) : i \in 1..Len(series)}
    IN  DateRange(Min(observed), Max(observed)) \ observed

RECURSIVE SetToSortedSeq(_)
SetToSortedSeq(S) ==
    IF S = {} THEN <<>> ELSE <<Min(S)>> \o SetToSortedSeq(S \ {Min(S)})

\* missing_data: the missing grid points with Balance NaN
MissingData(series) ==
    LET m == SetToSortedSeq(MissingDates(series))
    IN  [i \in 1..Len(m) |-> [DateTime |-> Some(m[i]), Balance |-> Missing]]

RECURSIVE InsertByDateTime(_, _)
InsertByDateTime(sorted, row) ==
    IF Len(sorted) = 0 THEN <<row>>
    ELSE IF Get(row.DateTime) < Get(sorted[1].DateTime) THEN <<row>> \o sorted
    ELSE <<sorted[1]>> \o InsertByDateTime(Tail(sorted), row)

RECURSIVE SortByDateTime(_, _)
\* sort_values(by='DateTime').reset_index(drop=True)
SortByDateTime(rows, i) ==
    IF i = 0 THEN <<>>
    ELSE InsertByDateTime(SortByDateTime(rows, i - 1), rows[i])

RECURSIVE Ffill(_, _)
\* data_combined['Balance'].ffill(): rows 1..i with every NaN replaced by
\* the last value before it that is not NaN
Ffill(rows, i) ==
    IF i = 0 THEN <<>>
    ELSE LET before == Ffill(rows, i - 1)
         IN  Append(before,
                 IF IsMissing(rows[i].Balance) /\ i > 1
                 THEN [rows[i] EXCEPT !.Balance = before[i - 1].Balance]
                 ELSE rows[i])

\* lines 118-145 of process_csv on the parsed rows: the regularized table;
\* Missing when no row has a timestamp (pd.date_range raises on NaT bounds)
Regularize(rows) ==
    LET series == BuildSeries(rows)
        combined == series \o MissingData(series)
        sorted == SortByDateTime(combined, Len(combined))
    IN  IF Len(series) = 0 THEN Missing
        ELSE Some(DropDuplicates(Ffill(sorted, Len(sorted))))

\* lines 107-115: the two columns converted
ParseRows(rows) ==
    [i \in 1..Len(rows) |->
        [DateTime |-> ToDatetimeCoerce(rows[i].DateTime),
         Balance |-> clean_and_convert_balance(rows[i].Balance)]]

\* Data regions: a time cell is a timestamp on a slot boundary or 7.5
\* minutes after it (rounded down from an even slot, up from an odd one), or
\* junk text; a balance cell is a number text or junk.
CsvTimes == {slot * Cadence + off : slot \in 0..MaxSlot, off \in {0, 450}}
CsvTimeCells == {KeyCell(LayoutHMS, t) : t \in CsvTimes} \cup {JunkCell}
BalanceTexts == {<<"1">>, <<"1", ",", "2", " ">>, <<"x">>}
CsvRows == [DateTime : CsvTimeCells, Balance : BalanceTexts]

InitCsv ==
    /\ pc = "start"
    /\ RoundIdle /\ CompatIdle /\ LoggerFresh /\ MergeIdle /\ calls = 0
    /\ CsvIdle /\ AppIdle /\ ColIdle /\ HeaderIdle /\ HtmlIdle

\* process_csv from the data region on (lines 107-145)
ProcessCsv ==
    /\ pc = "start"
    /\ \E rows \in SeqsUpTo(CsvRows, MaxCsvRows) :
          /\ csv_rows' = rows
          /\ data_combined' = Regularize(ParseRows(rows))
    /\ pc' = "done"
    /\ UNCHANGED <<roundVars, compatVars, logs, mergeVars, calls, appVars,
                 colVars, headerVars, htmlVars>>

NextCsv == ProcessCsv

SpecCsv == InitCsv /\ [][NextCsv]_vars

\* the parsed rows of the data region that have a timestamp
TimedRows == DropNaT(ParseRows(csv_rows))
\* the rounded timestamps of the series
RoundedTimes == {Round15(Get(TimedRows[i].DateTime)) : i \in 1..Len(TimedRows)}
\* the first row, in row order, whose timestamp rounds to T
FirstRowAt(T) ==
    TimedRows[Min({i \in 1..Len(TimedRows) :
                      Round15(Get(TimedRows[i].DateTime)) = T})]
\* the rows whose timestamp rounds to T
RowsAt(T) ==
    SelectSeq(TimedRows, LAMBDA r : Round15(Get(r.DateTime)) = T)
\* the records of a table at timestamp T
RecordsAt(table, T) ==
    SelectSeq(table, LAMBDA r : r.DateTime = Some(T))

\* C5: for a non-empty series the regularized output has exactly
\* 1 + (last - first) / 15min rows, starts at first, and each two adjacent
\* timestamps differ by exactly 15 minutes (so they strictly increase), first
\* and last being the least and greatest rounded timestamp of the series.
C5_GridComplete ==
    (pc = "done" /\ Len(TimedRows) > 0) =>
        /\ ~IsMissing(data_combined)
        /\ LET out == Get(data_combined)
               first == Min(RoundedTimes)
               last == Max(RoundedTimes)
           IN  /\ (last - first) % Cadence = 0
               /\ Len(out) = 1 + (last - first) \div Cadence
               /\ out[1].DateTime = Some(first)
               /\ out[Len(out)].DateTime = Some(last)
               /\ \A i \in 1..(Len(out) - 1) :
                      Get(out[i + 1].DateTime) - Get(out[i].DateTime) = Cadence

\* C5 witness: two observed timestamps half an hour apart, neither on a
\* boundary in the input, gave three rows.
C5_Witness ==
    /\ pc = "done"
    /\ ~IsMissing(data_combined)
    /\ Len(Get(data_combined)) = 3
    /\ Cardinality(RoundedTimes) = 2
    /\ \A i \in 1..Len(TimedRows) : Get(TimedRows[i].DateTime) % Cadence # 0

\* C6 as stated: every grid point of the regularized output has a value; a
\* grid point with an observed record keeps that record's value, a grid point
\* without one takes the value of the nearest preceding grid point that has
\* one, and the first grid point has an observed value; also when balance
\* texts failed to parse.
C6_EveryGridPointHasValue ==
    (pc = "done" /\ ~IsMissing(data_combined)) =>
        LET out == Get(data_combined)
            Observed(i) == Get(out[i].DateTime) \in RoundedTimes
        IN  /\ Observed(1)
            /\ \A i \in 1..Len(out) :
                  /\ ~IsMissing(out[i].Balance)
                  /\ Observed(i) =>
                        out[i].Balance
                            = FirstRowAt(Get(out[i].DateTime)).Balance
                  /\ ~Observed(i) =>
                        out[i].Balance
                            = out[Max({j \in 1..(i - 1) : Observed(j)})].Balance

\* C7 as stated: when several rows round to the same timestamp, the built
\* series and the regularized output hold exactly one record for it, with
\* the value of the first of those rows in row order.
C7_FirstRowWins ==
    (pc = "done" /\ ~IsMissing(data_combined)) =>
        \A T \in {U \in RoundedTimes : Len(RowsAt(U)) >= 2} :
            LET built == RecordsAt(BuildSeries(ParseRows(csv_rows)), T)
                out == RecordsAt(Get(data_combined), T)
            IN  /\ Len(built) = 1
                /\ built[1].Balance = FirstRowAt(T).Balance
                /\ Len(out) = 1
                /\ out[1].Balance = FirstRowAt(T).Balance

\* C8: the regularization steps applied to a regularized table return the
\* same sequence of (timestamp, value) records.
C8_Idempotent ==
    (pc = "done" /\ ~IsMissing(data_combined)) =>
        Regularize(Get(data_combined)) = data_combined

\* C8 witness: a table regularized from timestamps off the boundaries, with a
\* filled gap and a value carried into it.
C8_Witness ==
    /\ pc = "done"
    /\ ~IsMissing(data_combined)
    /\ Len(Get(data_combined)) = 3
    /\ Cardinality(RoundedTimes) = 2
    /\ Get(data_combined)[2].Balance = Some(12)
    /\ \E i \in 1..Len(TimedRows) : Get(TimedRows[i].DateTime) % Cadence # 0

\* process_csv from the data region on, for data regions of one row whose
\* time is any quarter minute of the slots 0..MaxSlot
QuarterMinuteTimes == {15 * k : k \in 0..((MaxSlot + 1) * 60 - 1)}

ProcessCsvOneRow ==
    /\ pc = "start"
    /\ \E t \in QuarterMinuteTimes :
          LET rows == <<[DateTime |-> KeyCell(LayoutHMS, t),
                         Balance |-> <<"1">>]>>
          IN  /\ csv_rows' = rows
              /\ data_combined' = Regularize(ParseRows(rows))
    /\ pc' = "done"
    /\ UNCHANGED <<roundVars, compatVars, logs, mergeVars, calls, appVars,
                   colVars, headerVars, htmlVars>>

NextCsvOneRow == ProcessCsvOneRow

SpecCsvOneRow == InitCsv /\ [][NextCsvOneRow]_vars

\* the instant t (seconds since midnight of day 0) as a datetime, and back
ToDateTime(t) ==
    [day |-> t \div 86400, hour |-> (t % 86400) \div 3600,
     minute |-> (t % 3600) \div 60, second |-> t % 60, microsecond |-> 0]
InstantOf(d) == MinuteOfEpoch(d) * 60 + d.second

\* C14 as stated: the timestamp of every row of the built series is the
\* instant round_time_to_nearest_15min gives for the row's parsed timestamp
\* (((m + 7) div 15) * 15 on the minute, with hour rollover, seconds
\* discarded), whatever its seconds are.
C14_RoundsAsNormalizer ==
    pc = "done" =>
        \A i \in 1..Len(TimedRows) :
            RoundRow(TimedRows[i]).DateTime
                = Some(InstantOf(round_time_to_nearest_15min(
                           ToDateTime(Get(TimedRows[i].DateTime)))))

(***************************************************************************)
(* src/src/data_processor.py: the column drop and the search for the data  *)
(* region (process_csv lines 90-105, validate_csv_structure)               *)
(***************************************************************************)

\* Bound: the rows of the table read from the file.
MaxTableRows == 3

\* The marker texts '時間' and '残高'.
MarkerTime == "jikan"
MarkerBalance == "zandaka"

\* Series.astype(str).str.contains(marker, na=False) on one cell: the marker
\* is a substring of the cell's text. "No. jikan" is a text around '時間'.
Contains(text, marker) ==
    \/ text = marker
    \/ (marker = MarkerTime /\ text = "No. jikan")

\* lines 91-93, columns B-K and M: the positions 1-10 and, when the table
\* has more than 12 columns, 12
ColumnsToDrop(ncols) ==
    {k \in 0..(ncols - 1) : 1 <= k /\ k <= 10}
        \cup (IF ncols > 12 THEN {12} ELSE {})

\* df.drop(columns=columns_to_drop): the original positions of the columns
\* of df_dropped, in order
KeptColumns(ncols) == SetToSortedSeq((0..(ncols - 1)) \ ColumnsToDrop(ncols))

\* validate_csv_structure(df_dropped): the index after the first row with
\* '時間' at position 0 and '残高' at position 11 of df_dropped.
\* df.iloc[:, 11] raises IndexError when df_dropped has fewer than 12
\* columns; the except clause turns every exception into DataValidationError.
validate_csv_structure(kept, rows) ==
    IF Len(kept) < 12
    THEN [error |-> "validation failed: IndexError", start_row |-> 0]
    ELSE LET start_rows ==
                 {i \in 1..Len(rows) :
                     /\ Contains(rows[i][kept[1]], MarkerTime)
                     /\ Contains(rows[i][kept[12]], MarkerBalance)}
         IN  IF start_rows = {}
             THEN [error |-> "validation failed: header not found",
                   start_row |-> 0]
             ELSE [error |-> "none", start_row |-> Min(start_rows)]

\* process_csv lines 90-105 on the table df: the data region under the
\* column names DateTime and Balance, or the error that makes process_csv
\* return None. Assigning two column names to a table of another width
\* raises ValueError.
LocateDataRegion(table) ==
    LET kept == KeptColumns(table.ncols)
        v == validate_csv_structure(kept, table.rows)
        region == SubSeq(table.rows, v.start_row + 1, Len(table.rows))
    IN  IF v.error # "none" THEN [error |-> v.error, region |-> <<>>]
        ELSE IF Len(kept) # 2
        THEN [error |-> "ValueError: length mismatch", region |-> <<>>]
        ELSE [error |-> "none",
              region |-> [i \in 1..Len(region) |->
                             [DateTime |-> region[i][kept[1]],
                              Balance |-> region[i][kept[2]]]]]

\* Tables: 12, 13 (the MT5 export) or 23 columns; a row holds a, b, c at
\* the positions 0, 11, 22 it has and other text elsewhere.
ColumnCounts == {12, 13, 23}
RowOf(ncols, a, b, c) ==
    [k \in 0..(ncols - 1) |->
        IF k = 0 THEN a ELSE IF k = 11 THEN b ELSE IF k = 22 THEN c
        ELSE "other"]
TableRows(ncols) ==
    {RowOf(ncols, a, b, c) :
        a \in {MarkerTime, "No. jikan", "2023.12.01 10:00:00"},
        b \in {MarkerBalance, "100"},
        c \in {MarkerBalance, "other"}}
CsvTables ==
    UNION {[ncols : {n}, rows : SeqsUpTo(TableRows(n), MaxTableRows)]
              : n \in ColumnCounts}

InitHeader ==
    /\ pc = "start"
    /\ RoundIdle /\ CompatIdle /\ LoggerFresh /\ MergeIdle /\ calls = 0
    /\ CsvIdle /\ AppIdle /\ ColIdle /\ HeaderIdle /\ HtmlIdle

\* process_csv from the table read (line 87) to the data region (line 105)
LocateRegion ==
    /\ pc = "start"
    /\ \E table \in CsvTables :
          /\ csv_df' = Some(table)
          /\ time_balance_info' = Some(LocateDataRegion(table))
    /\ pc' = "done"
    /\ UNCHANGED <<roundVars, compatVars, logs, mergeVars, calls, csvVars,
                   appVars, colVars, htmlVars>>

NextHeader == LocateRegion

SpecHeader == InitHeader /\ [][NextHeader]_vars

\* the rows of the table read that have '時間' at original position 0 and
\* '残高' at original position 11
HeaderRows ==
    LET table == Get(csv_df)
    IN  {i \in 1..Len(table.rows) :
            /\ Contains(table.rows[i][0], MarkerTime)
            /\ Contains(table.rows[i][11], MarkerBalance)}

\* C12 as stated: when the table read has a row with '時間' in the time
\* column (original position 0) and '残高' in the balance column (original
\* position 11), the data region is the rows after the first such row, as
\* the two columns DateTime (position 0) and Balance (position 11); the
\* header-not-found error occurs only when the table has no such row.
C12_RegionStartsAfterHeaderRow ==
    pc = "done" =>
        LET table == Get(csv_df)
            found == Get(time_balance_info)
        IN  /\ HeaderRows # {} =>
                  /\ found.error = "none"
                  /\ Len(found.region) = Len(table.rows) - Min(HeaderRows)
                  /\ \A i \in 1..Len(found.region) :
                        /\ found.region[i].DateTime
                               = table.rows[Min(HeaderRows) + i][0]
                        /\ found.region[i].Balance
                               = table.rows[Min(HeaderRows) + i][11]
            /\ found.error = "validation failed: header not found" =>
                  HeaderRows = {}

(***************************************************************************)
(* src/src/merge_processor.py: calls in sequence in one process, all       *)
(* writing to the module's logger                                          *)
(***************************************************************************)

\* Bound: the calls made in one process.
MaxCalls == 2

CallNames ==
    {cH1 \o <<"_">> \o cCT \o <<"3", "_">> \o cPd \o <<"2", ".", "c", "s", "v">>,
     cG2 \o <<"_">> \o cCT \o <<"3", "_">> \o cPd \o <<"2", ".", "c", "s", "v">>,
     cG2 \o <<"_">> \o cCT \o <<"5", "_">> \o cPd \o <<"2", ".", "c", "s", "v">>,
     <<"a", ".", "c", "s", "v">>}
CallH1Files ==
    {CsvFile(1, "absent", FALSE, <<>>),
     CsvFile(1, "table", TRUE, <<[key |-> KeyCell(LayoutHMS, 0), val |-> "a"]>>),
     CsvFile(1, "table", TRUE, <<[key |-> JunkCell, val |-> "a"]>>)}
CallG2Files ==
    {CsvFile(2, "empty", FALSE, <<>>),
     CsvFile(2, "table", TRUE, <<[key |-> KeyCell(LayoutHM, 0), val |-> "x"]>>),
     CsvFile(2, "table", TRUE, <<[key |-> KeyCell(LayoutHM, 1), val |-> "x"]>>)}

InitCalls ==
    /\ pc = "start"
    /\ RoundIdle /\ CompatIdle /\ LoggerFresh /\ MergeIdle /\ calls = 0
    /\ CsvIdle /\ AppIdle /\ ColIdle /\ HeaderIdle /\ HtmlIdle

CallValidate ==
    /\ calls < MaxCalls
    /\ \E a \in CallNames, b \in CallNames : ValidateCall(a, b)

CallMerge ==
    /\ calls < MaxCalls
    /\ \E h1 \in CallH1Files, g2 \in CallG2Files : MergeCall(h1, g2)

NextCalls == CallValidate \/ CallMerge

SpecCalls == InitCalls /\ [][NextCalls]_vars

\* C10 as stated: whatever calls to validate_file_compatibility and
\* merge_h1_g2_files came before, a call to merge_h1_g2_files returns the
\* merged table and the log text that the same call returns when it is the
\* first call of a fresh process.
C10_SameAsInFreshProcess ==
    ~IsMissing(merge_ret) =>
        Get(merge_ret) = merge_h1_g2_files(Get(h1_file), Get(g2_file), <<>>)

(***************************************************************************)
(* src/src/merge_processor.py: generate_h4_filename                        *)
(***************************************************************************)

\* Path(name).stem: the name without its last suffix
Stem(name) ==
    LET dots == {i \in 2..Len(name) : name[i] = "."}
    IN  IF dots = {} THEN name ELSE SubSeq(name, 1, Max(dots) - 1)

RECURSIVE SplitOn(_, _)
\* text.split(sep) for a one-character sep
SplitOn(text, sep) ==
    LET at == {i \in 1..Len(text) : text[i] = sep}
    IN  IF at = {} THEN <<text>>
        ELSE <<SubSeq(text, 1, Min(at) - 1)>>
                \o SplitOn(SubSeq(text, Min(at) + 1, Len(text)), sep)

RECURSIVE JoinWith(_, _)
\* sep.join(parts)
JoinWith(parts, sep) ==
    IF Len(parts) = 0 THEN <<>>
    ELSE IF Len(parts) = 1 THEN parts[1]
    ELSE parts[1] \o <<sep>> \o JoinWith(Tail(parts), sep)

\* generate_h4_filename: the H4 name, Missing when next() finds no part of
\* the G2 name that starts with 'FI' and raises StopIteration
generate_h4_filename(h1_name, g2_name) ==
    LET h1_parts == SplitOn(Stem(h1_name), "_")
        g2_parts == SplitOn(Stem(g2_name), "_")
        fi == SelectSeq(g2_parts, LAMBDA part : HasAt(part, 1, <<"F", "I">>))
    IN  IF Len(fi) = 0 THEN Missing
        ELSE Some(JoinWith(<<<<"H", "4">>>> \o Tail(h1_parts) \o <<fi[1]>>, "_")
                      \o <<".", "c", "s", "v">>)

(***************************************************************************)
(* src/streamlit_app.py: one run of main() (the extraction tab and the     *)
(* merge tab; the HTML tab creates no file)                                *)
(***************************************************************************)

\* Bound: the script runs of one session.
MaxRuns == 2

\* files on disk
Scratch(n) == [id |-> n, kind |-> "scratch"]
\* the '<stem>_BD.csv' file process_csv writes beside its input
OutputOf(n) == [id |-> n, kind |-> "output"]

\* process_csv(path) on the uploaded table: the output path, or None when
\* the data region is not located or no row of it has a timestamp.
\* upload.table is the table read, upload.rows the texts of its data rows.
process_csv(n, upload) ==
    IF LocateDataRegion(upload.table).error = "none"
          /\ ~IsMissing(Regularize(ParseRows(upload.rows)))
    THEN Some(OutputOf(n))
    ELSE Missing

\* what merge_h1_g2_files finds at the path of a temporary file that is
\* still open: the buffered writer has passed the bytes on only when they
\* did not fit its buffer
OpenTempFile(n, upload) ==
    IF upload.large
    THEN CsvFile(n, "table", TRUE, upload.rows)
    ELSE CsvFile(n, "empty", FALSE, <<>>)

\* Uploads.
CsvUploads ==
    {[table |-> [ncols |-> 13,
                 rows |-> <<RowOf(13, MarkerTime, MarkerBalance, "other"),
                            RowOf(13, "2023.12.01 10:00:00", "100",
                                  "other")>>],
      rows |-> <<[DateTime |-> KeyCell(LayoutHMS, 0), Balance |-> <<"1">>]>>],
     [table |-> [ncols |-> 13, rows |-> <<>>], rows |-> <<>>]}
AppH1Name ==
    cH1 \o <<"_">> \o cCT \o <<"3", "_">> \o cPd \o <<"2", ".", "c", "s", "v">>
AppG2Names ==
    {cG2 \o <<"_">> \o cCT \o <<"3", "_">> \o cPd
         \o <<"2", "_", "F", "I", "1", ".", "c", "s", "v">>,
     cG2 \o <<"_">> \o cCT \o <<"5", "_">> \o cPd
         \o <<"2", "_", "F", "I", "1", ".", "c", "s", "v">>,
     cG2 \o <<"_">> \o cCT \o <<"3", "_">> \o cPd \o <<"2", ".", "c", "s", "v">>}
H1Uploads ==
    {[name |-> AppH1Name, large |-> big,
      rows |-> <<[key |-> KeyCell(LayoutHMS, 0), val |-> "a"]>>]
        : big \in BOOLEAN}
G2Uploads ==
    {[name |-> nm, large |-> big,
      rows |-> <<[key |-> KeyCell(LayoutHM, 0), val |-> "x"]>>]
        : nm \in AppG2Names, big \in BOOLEAN}
Optional(S) == {Missing} \cup {Some(x) : x \in S}

RunCount == IF IsMissing(run) THEN 0 ELSE Get(run).n

InitApp ==
    /\ pc = "start"
    /\ RoundIdle /\ CompatIdle /\ LoggerFresh /\ MergeIdle /\ calls = 0
    /\ CsvIdle /\ AppIdle /\ ColIdle /\ HeaderIdle /\ HtmlIdle

\* One run of main(). csv, h1 and g2 are what the three uploaders hold, click
\* the button pressed for this run ("none", "extract", "merge").
ScriptRun ==
    /\ RunCount < MaxRuns
    /\ \E csv \in Optional(CsvUploads), h1 \in Optional(H1Uploads),
          g2 \in Optional(G2Uploads), click \in {"none", "extract", "merge"} :
        /\ click = "extract" => ~IsMissing(csv)
        /\ click = "merge" => ~IsMissing(h1) /\ ~IsMissing(g2)
        /\ LET \* tab2, lines 228-258
               n1 == tmp_seq + 1
               seq2 == IF IsMissing(csv) THEN tmp_seq ELSE n1
               made2 == IF IsMissing(csv) THEN {} ELSE {Scratch(n1)}
               extracting == ~IsMissing(csv) /\ click = "extract"
               output == IF extracting THEN process_csv(n1, Get(csv))
                         ELSE Missing
               \* output_df.to_csv on the returned path raises AttributeError
               raised2 == extracting /\ ~IsMissing(output)
               disk2 == (disk \cup made2 \cup Range(output))
                           \ (IF extracting THEN {Scratch(n1)} ELSE {})
               \* tab3, lines 290-322
               merging == ~raised2 /\ click = "merge"
               n2 == seq2 + 1
               n3 == seq2 + 2
               made3 == IF merging THEN {Scratch(n2), Scratch(n3)} ELSE {}
               ret == merge_h1_g2_files(OpenTempFile(n2, Get(h1)),
                                        OpenTempFile(n3, Get(g2)), logs)
               h4 == generate_h4_filename(Get(h1).name, Get(g2).name)
               raised3 == merging /\ ~IsMissing(ret.df) /\ IsMissing(h4)
               disk3 == IF merging /\ ~raised3 THEN disk2
                        ELSE disk2 \cup made3
           IN  /\ disk' = disk3
               /\ created' = made2 \cup made3
               /\ tmp_seq' = IF merging THEN n3 ELSE seq2
               /\ logs' = IF merging THEN ret.logs ELSE logs
               /\ calls' = IF merging THEN calls + 1 ELSE calls
               /\ run' = Some([n |-> RunCount + 1,
                               click |-> click,
                               csv_uploaded |-> ~IsMissing(csv),
                               extract |->
                                   IF ~extracting THEN "not run"
                                   ELSE IF raised2 THEN "AttributeError"
                                   ELSE "error shown",
                               h1_name |-> IF merging THEN Get(h1).name
                                           ELSE <<>>,
                               g2_name |-> IF merging THEN Get(g2).name
                                           ELSE <<>>,
                               merged_df |-> IF merging THEN ret.df
                                             ELSE Missing,
                               merge |->
                                   IF ~merging THEN "not run"
                                   ELSE IF raised3 THEN "failed"
                                   ELSE IF IsMissing(ret.df) THEN "no table"
                                   ELSE "merged"])
    /\ pc' = "done"
    /\ UNCHANGED <<roundVars, compatVars, mergeVars, csvVars,
                 colVars, headerVars, htmlVars>>

NextApp == ScriptRun

SpecApp == InitApp /\ [][NextApp]_vars

\* C2 as stated: a merge started from the merge tab for two files whose
\* names are incompatible (a name without a (CT, Pd) pair, or two different
\* pairs) yields no merged table.
C2_IncompatibleNamesRefused ==
    (/\ ~IsMissing(run)
     /\ Get(run).click = "merge"
     /\ ~validate_file_compatibility(Get(run).h1_name, Get(run).g2_name).ret)
        => IsMissing(Get(run).merged_df)

\* C9 as stated: after any run of the extraction tab and of the merge tab,
\* no scratch file that the run created from an uploaded buffer is still on
\* disk.
C9_ScratchFilesRemoved ==
    ~IsMissing(run) => created \cap disk = {}

(***************************************************************************)
(* src/streamlit_app.py: round_time_column                                 *)
(***************************************************************************)

\* Bound: the rows of the time column.
MaxColRows == 3

\* The layouts of a time cell: the separator of its date part.
StyleDot == "%Y.%m.%d %H:%M:%S"
StyleDash == "%Y-%m-%d %H:%M:%S"

\* A time cell is the text of the datetime t in one of the two layouts; the
\* text ends in a fraction of a second ('.5') when t.microsecond is not 0.
TimeCell(style, t) == [style |-> style, t |-> t]

\* str(cell) has a '.' in it
HasDot(cell) == cell.style = StyleDot \/ cell.t.microsecond # 0

\* pd.notna(result_df['時間']): the cells of the column that are not NaN
NotNaCells(col) == SelectSeq(col, LAMBDA c : ~IsMissing(c))

\* pd.to_datetime(texts, format=style): the datetimes, or Missing for the
\* ValueError raised when a text is not exactly in that layout
ToDatetimeFormat(cells, style) ==
    IF \A i \in 1..Len(cells) :
           Get(cells[i]).style = style /\ Get(cells[i]).t.microsecond = 0
    THEN Some([i \in 1..Len(cells) |-> Get(cells[i]).t])
    ELSE Missing

\* pd.to_datetime(texts) without a format. The installed pandas decides:
\* "each" parses every text on its own, "first" infers the layout from the
\* first text and raises ValueError (Missing) for a text in another layout.
ParserModes == {"each", "first"}
SameLayout(a, b) ==
    a.style = b.style /\ (a.t.microsecond = 0) = (b.t.microsecond = 0)
ToDatetimeInfer(cells, mode) ==
    IF mode = "first"
          /\ \E i \in 1..Len(cells) : ~SameLayout(Get(cells[i]), Get(cells[1]))
    THEN Missing
    ELSE Some([i \in 1..Len(cells) |-> Get(cells[i]).t])

\* round_time_column(df) on the column df['時間']: the column of result_df,
\* or Missing when the exception of line 115 leaves the function
round_time_column(col, mode) ==
    LET cells == NotNaCells(col)
        try_dot == ToDatetimeFormat(cells, StyleDot)
        try_dash == ToDatetimeFormat(cells, StyleDash)
        valid_times == IF ~IsMissing(try_dot) THEN try_dot
                       ELSE IF ~IsMissing(try_dash) THEN try_dash
                       ELSE ToDatetimeInfer(cells, mode)
        style == IF HasDot(Get(cells[1])) THEN StyleDot ELSE StyleDash
    IN  IF Len(cells) = 0 THEN Some(col)
        ELSE IF IsMissing(valid_times) THEN Missing
        ELSE Some([i \in 1..Len(col) |->
                      IF IsMissing(col[i]) THEN Missing
                      ELSE Some(TimeCell(style,
                               round_time_to_nearest_15min(Get(col[i]).t)))])

\* Time columns: a cell is NaN or a timestamp in either layout, with or
\* without a fraction of a second.
ColDateTimes ==
    [day : {0}, hour : {23}, minute : {7, 53}, second : {30},
     microsecond : {0, 500000}]
ColCells ==
    {Missing} \cup {Some(TimeCell(st, t)) :
                        st \in {StyleDot, StyleDash}, t \in ColDateTimes}

InitCol ==
    /\ pc = "start"
    /\ RoundIdle /\ CompatIdle /\ LoggerFresh /\ MergeIdle /\ calls = 0
    /\ CsvIdle /\ AppIdle /\ ColIdle /\ HeaderIdle /\ HtmlIdle

RoundTimeColumn ==
    /\ pc = "start"
    /\ \E col \in SeqsUpTo(ColCells, MaxColRows), mode \in ParserModes :
          /\ time_column' = col
          /\ result_df' = round_time_column(col, mode)
    /\ pc' = "done"
    /\ UNCHANGED <<roundVars, compatVars, logs, mergeVars, calls, csvVars,
                   appVars, headerVars, htmlVars>>

NextCol == RoundTimeColumn

SpecCol == InitCol /\ [][NextCol]_vars

\* C11 as stated: round_time_column returns a column in which every non-empty
\* time cell is the rounded time of the input cell written with the separator
\* style ('.' or '-') this cell had on input, also for a column that mixes the
\* two styles.
C11_RowKeepsItsStyle ==
    pc = "done" =>
        /\ ~IsMissing(result_df)
        /\ \A i \in 1..Len(time_column) :
              ~IsMissing(time_column[i]) =>
                  /\ ~IsMissing(Get(result_df)[i])
                  /\ Get(Get(result_df)[i]).style = Get(time_column[i]).style
                  /\ Get(Get(result_df)[i]).t
                         = round_time_to_nearest_15min(Get(time_column[i]).t)

(***************************************************************************)
(* src/streamlit_app.py: find_data_start and convert_html_to_df            *)
(***************************************************************************)

\* Bound: the rows of the largest table of the page.
MaxHtmlRows == 5

\* The marker texts: '約定', 'end of test', 'balance' ('時間' is MarkerTime).
MarkerDeals == "yakujo"
MarkerEnd == "end of test"
MarkerBalanceRow == "balance"

\* marker in str(val) (line 48), str.contains(marker) (line 74): the marker
\* is a substring of the cell's text
InText(marker, text) ==
    \/ text = marker
    \/ (marker = MarkerEnd /\ text = "tp, end of test")

\* str.contains('balance', case=False) (line 78)
InTextNoCase(marker, text) ==
    \/ InText(marker, text)
    \/ (marker = MarkerBalanceRow /\ text = "Balance")

\* any(marker in str(val) for val in row)
AnyCell(row, marker) == \E k \in 1..Len(row) : InText(marker, row[k])

\* find_data_start(df): the 0-based position after the first row with '時間'
\* that follows a row with '約定'; 0 when there is none
find_data_start(rows) ==
    LET hits == {i \in 1..(Len(rows) - 1) :
                    AnyCell(rows[i], MarkerDeals)
                        /\ AnyCell(rows[i + 1], MarkerTime)}
    IN  IF hits = {} THEN 0 ELSE Min(hits) + 1

\* the rows of a table under their index labels 0, 1, ... (pd.read_html
\* gives a RangeIndex)
Labelled(rows) == [i \in 1..Len(rows) |-> [label |-> i - 1, cells |-> rows[i]]]

\* 'end of test' in main_df.values: a cell equal to the marker
HasEndCell(region) ==
    \E i \in 1..Len(region) :
        \E k \in 1..Len(region[i].cells) : region[i].cells[k] = MarkerEnd

\* main_df.apply(... str.contains('end of test')).any(axis=1).idxmax(): the
\* index label of the first row with the marker in a cell
EndLabel(region) ==
    region[Min({i \in 1..Len(region) : AnyCell(region[i].cells, MarkerEnd)})]
        .label

\* main_df.iloc[:n]: the first n rows by position
ILocUpTo(region, n) == SubSeq(region, 1, Min({n, Len(region)}))

\* line 78: the rows without 'balance' in any cell
DropBalanceRows(region) ==
    SelectSeq(region, LAMBDA r :
        ~\E k \in 1..Len(r.cells) : InTextNoCase(MarkerBalanceRow, r.cells[k]))

\* convert_html_to_df from the largest table on (lines 63-84): the returned
\* rows, or Missing (None) when find_data_start returns 0
convert_html_to_df(rows) ==
    LET start_idx == find_data_start(rows)
        all == Labelled(rows)
        sliced == SubSeq(all, start_idx + 1, Len(all))
        cut == IF HasEndCell(sliced)
               THEN ILocUpTo(sliced, EndLabel(sliced) + 1)
               ELSE sliced
    IN  IF start_idx > 0 THEN Some(DropBalanceRows(cut)) ELSE Missing

\* Tables: a row is shown by its type cell and its comment cell (the other
\* eleven cells of a row hold none of the markers).
HtmlRows ==
    {<<MarkerDeals, "other">>, <<MarkerTime, "other">>, <<"buy", "other">>,
     <<"Balance", "other">>, <<"sell", MarkerEnd>>,
     <<"sell", "tp, end of test">>}

InitHtml ==
    /\ pc = "start"
    /\ RoundIdle /\ CompatIdle /\ LoggerFresh /\ MergeIdle /\ calls = 0
    /\ CsvIdle /\ AppIdle /\ ColIdle /\ HeaderIdle /\ HtmlIdle

ConvertHtml ==
    /\ pc = "start"
    /\ \E rows \in SeqsUpTo(HtmlRows, MaxHtmlRows) :
          /\ main_df' = rows
          /\ html_ret' = convert_html_to_df(rows)
    /\ pc' = "done"
    /\ UNCHANGED <<roundVars, compatVars, logs, mergeVars, calls, csvVars,
                   appVars, colVars, headerVars>>

NextHtml == ConvertHtml

SpecHtml == InitHtml /\ [][NextHtml]_vars

\* the index labels of the rows from the data start on that contain the
\* end-of-data marker
EndRowLabels ==
    {l \in find_data_start(main_df)..(Len(main_df) - 1) :
        AnyCell(main_df[l + 1], MarkerEnd)}

\* C13 as stated: when find_data_start finds a start, the returned region is
\* the rows from the start to the first row after it that contains
\* 'end of test', that row included, and no row after it; without such a row
\* it runs to the table's last row ('balance' rows being left out of it).
C13_RegionEndsAtFirstEndRow ==
    (pc = "done" /\ find_data_start(main_df) > 0) =>
        LET start == find_data_start(main_df)
            end == IF EndRowLabels # {} THEN Min(EndRowLabels)
                   ELSE Len(main_df) - 1
        IN  /\ ~IsMissing(html_ret)
            /\ Get(html_ret)
                   = DropBalanceRows(
                         SelectSeq(Labelled(main_df), LAMBDA r :
                             start <= r.label /\ r.label <= end))

====
